---- MODULE Spec2Model ----
(***************************************************************************)
(* Model of the Argent-style multisig account program                      *)
(* (programs/multisig/src/lib.rs).                                         *)
(*                                                                         *)
(* One ArgentAccount record (the program-derived address of the seed pair  *)
(* (SeedOwner, SeedGuardian)) is followed through every instruction of    *)
(* the program.  An instruction is: the account validation declared by its *)
(* #[derive(Accounts)] struct, then its handler.  A handler works on the   *)
(* record it is handed and returns a result; handlers are written here as  *)
(* operators from the record (and the handler's inputs) to                 *)
(* [result, account], in the order of the statements of the source.        *)
(*                                                                         *)
(* Clock readings are non-negative and never decrease, so the i64          *)
(* subtraction of two readings cannot overflow.                            *)
(***************************************************************************)
EXTENDS Integers, Sequences, FiniteSets, TLC

\* ---------------------------------------------------------------- bounds
\* Largest clock reading (clock.unix_timestamp) the model explores.
MaxTime == 2

\* ------------------------------------------------------------- constants
\* security_period.unwrap_or(604800)
DefaultSecurityPeriod == 604800

\* ---------------------------------------------------------------- inputs
\* Pubkeys
Keys == {"K1", "K2"}

\* seeds = [b"argent", owner, guardian] of the record followed
SeedOwner == "K1"
SeedGuardian == "K2"

\* Option<T>
None == << >>
Some(x) == << x >>
Option(S) == {None} \cup {Some(x) : x \in S}
unwrap_or(opt, d) == IF opt = None THEN d ELSE opt[1]

\* security_period arguments of create: absent, zero, positive
SecurityPeriodArgs == {None, Some(0), Some(1)}

\* data: Vec<u8> arguments of execute
DataArgs == {<< >>, << 7 >>}

\* new_owner_signature: [u8; 64], shortened to two bytes
ZeroSignature == << 0, 0 >>
SignatureArgs == {<< 0, 0 >>, << 0, 1 >>}

\* An account handed to an instruction: its key and whether it signed
AccountInfos == [key : Keys, is_signer : BOOLEAN]

\* A payer or upgrade authority: a third party's account
PayerInfos == [key : {"K3"}, is_signer : BOOLEAN]

\* new_guardian_backup arguments of change_guardian_backup
BackupArgs == {None, Some("K1")}

\* The runtime has one is_signer flag per key of a transaction
SameKeySameFlag(a, b) == a.key = b.key => a.is_signer = b.is_signer

\* ----------------------------------------------------------------- state
VARIABLES
    initialized,    \* whether the record exists (create has succeeded)
    account,        \* the ArgentAccount record
    clock,          \* Clock::get().unix_timestamp
    last,           \* the instruction being returned from: its name, accounts, arguments,
                    \* the record before it, its result and msg! log
    triggered,      \* escape_type and clock reading of the most recent successful trigger
    replaced        \* escape_type and trigger time of the escape that was in progress
                    \* when the escape now in progress was last triggered

vars == << initialized, account, clock, last, triggered, replaced >>

\* pub struct PendingTransaction
PendingTransaction(data, owner_approved, guardian_approved) ==
    [data |-> data, owner_approved |-> owner_approved,
     guardian_approved |-> guardian_approved]

\* pub struct ArgentAccount, before init
ArgentAccount ==
    [owner |-> "K1", guardian |-> "K1", guardian_backup |-> None,
     escape_type |-> "None", escape_initiated_at |-> 0,
     security_period |-> 0, pending_tx |-> None]

\* pub enum EscapeType
EscapeType == {"None", "Guardian", "Owner"}

\* Ok(()) with the record as written and the msg! lines logged; Err(code)
Ok(acc, logs) == [result |-> "Ok", account |-> acc, logs |-> logs]
Err(code, acc) == [result |-> code, account |-> acc, logs |-> << >>]

\* -------------------------------------------------------------- handlers
create(acc, owner, guardian, security_period) ==
    Ok([owner |-> owner,
        guardian |-> guardian,
        guardian_backup |-> None,
        escape_type |-> "None",
        escape_initiated_at |-> 0,
        security_period |-> unwrap_or(security_period, DefaultSecurityPeriod),
        pending_tx |-> None],
       << >>)

\* execute, were it to keep a payload that is already staged
execute_keep_staged(acc, owner_signed, guardian_signed, data) ==
    IF ~(owner_signed /\ guardian_signed) THEN Err("NotEnoughApprovals", acc)
    ELSE Ok([acc EXCEPT !.pending_tx =
                 IF acc.pending_tx = None
                 THEN Some(PendingTransaction(data, TRUE, TRUE))
                 ELSE acc.pending_tx],
            << "Transaction approved and ready for execution!" >>)

execute(acc, owner_signed, guardian_signed, data) ==
    IF ~(owner_signed /\ guardian_signed) THEN Err("NotEnoughApprovals", acc)
    ELSE Ok([acc EXCEPT !.pending_tx = Some(PendingTransaction(data, TRUE, TRUE))],
            << "Transaction approved and ready for execution!" >>)

\* change_owner without the check of new_owner_signature
change_owner_unchecked(acc, owner_signed, guardian_signed, new_owner, new_owner_signature) ==
    IF ~(owner_signed /\ guardian_signed) THEN Err("NotEnoughApprovals", acc)
    ELSE Ok([acc EXCEPT !.owner = new_owner],
            << "Owner changed successfully!" >>)

change_owner(acc, owner_signed, guardian_signed, new_owner, new_owner_signature) ==
    IF ~(owner_signed /\ guardian_signed) THEN Err("NotEnoughApprovals", acc)
    ELSE IF ~(new_owner_signature # ZeroSignature) THEN Err("InvalidSignature", acc)
    ELSE Ok([acc EXCEPT !.owner = new_owner],
            << "Owner changed successfully!" >>)

\* change_guardian, were the rotation to end the escape in progress
change_guardian_reset_escape(acc, owner_signed, guardian_signed, new_guardian) ==
    IF ~(owner_signed /\ guardian_signed) THEN Err("NotEnoughApprovals", acc)
    ELSE Ok([acc EXCEPT !.guardian = new_guardian,
                        !.escape_type = "None",
                        !.escape_initiated_at = 0],
            << "Guardian changed successfully!" >>)

change_guardian(acc, owner_signed, guardian_signed, new_guardian) ==
    IF ~(owner_signed /\ guardian_signed) THEN Err("NotEnoughApprovals", acc)
    ELSE Ok([acc EXCEPT !.guardian = new_guardian],
            << "Guardian changed successfully!" >>)

change_guardian_backup(acc, owner_signed, guardian_signed, new_guardian_backup) ==
    IF ~(owner_signed /\ guardian_signed) THEN Err("NotEnoughApprovals", acc)
    ELSE Ok([acc EXCEPT !.guardian_backup = new_guardian_backup],
            << "Guardian backup changed successfully!" >>)

\* trigger_escape_guardian, were it blocked by an Owner escape in progress
trigger_escape_guardian_blocked(acc, owner_signed, unix_timestamp) ==
    IF ~owner_signed THEN Err("NotEnoughApprovals", acc)
    ELSE IF acc.escape_type = "Owner" THEN Err("EscapeOwnerInProgress", acc)
    ELSE Ok([acc EXCEPT !.escape_type = "Guardian",
                        !.escape_initiated_at = unix_timestamp],
            << "Guardian escape triggered!" >>)

\* trigger_escape_guardian, were an override to keep the timestamp it finds
trigger_escape_guardian_keep_clock(acc, owner_signed, unix_timestamp) ==
    IF ~owner_signed THEN Err("NotEnoughApprovals", acc)
    ELSE Ok([acc EXCEPT !.escape_type = "Guardian",
                        !.escape_initiated_at =
                            IF acc.escape_type = "Owner" THEN acc.escape_initiated_at
                            ELSE unix_timestamp],
            (IF acc.escape_type = "Owner"
             THEN << "Overriding escape owner in progress" >> ELSE << >>)
            \o << "Guardian escape triggered!" >>)

trigger_escape_guardian(acc, owner_signed, unix_timestamp) ==
    IF ~owner_signed THEN Err("NotEnoughApprovals", acc)
    ELSE Ok([acc EXCEPT !.escape_type = "Guardian",
                        !.escape_initiated_at = unix_timestamp],
            (IF acc.escape_type = "Owner"
             THEN << "Overriding escape owner in progress" >> ELSE << >>)
            \o << "Guardian escape triggered!" >>)

\* trigger_escape_owner without the "escape guardian in progress" check
trigger_escape_owner_unguarded(acc, guardian_signed, unix_timestamp) ==
    IF ~guardian_signed THEN Err("NotEnoughApprovals", acc)
    ELSE Ok([acc EXCEPT !.escape_type = "Owner",
                        !.escape_initiated_at = unix_timestamp],
            << "Owner escape triggered!" >>)

\* trigger_escape_owner, were a retrigger to keep the timestamp it finds
trigger_escape_owner_keep_clock(acc, guardian_signed, unix_timestamp) ==
    IF ~guardian_signed THEN Err("NotEnoughApprovals", acc)
    ELSE IF ~(acc.escape_type # "Guardian") THEN Err("EscapeGuardianInProgress", acc)
    ELSE Ok([acc EXCEPT !.escape_type = "Owner",
                        !.escape_initiated_at =
                            IF acc.escape_type = "Owner" THEN acc.escape_initiated_at
                            ELSE unix_timestamp],
            << "Owner escape triggered!" >>)

trigger_escape_owner(acc, guardian_signed, unix_timestamp) ==
    IF ~guardian_signed THEN Err("NotEnoughApprovals", acc)
    ELSE IF ~(acc.escape_type # "Guardian") THEN Err("EscapeGuardianInProgress", acc)
    ELSE Ok([acc EXCEPT !.escape_type = "Owner",
                        !.escape_initiated_at = unix_timestamp],
            << "Owner escape triggered!" >>)

\* escape_guardian, were it to write the guardian before the time-lock check
escape_guardian_write_first(acc, owner_signed, unix_timestamp, new_guardian) ==
    LET elapsed == unix_timestamp - acc.escape_initiated_at
        written == [acc EXCEPT !.guardian = new_guardian]
    IN
    IF ~owner_signed THEN Err("NotEnoughApprovals", acc)
    ELSE IF ~(acc.escape_type = "Guardian") THEN Err("InvalidEscapeType", acc)
    ELSE IF ~(elapsed >= acc.security_period)
         THEN Err("SecurityPeriodNotElapsed", written)
    ELSE Ok([written EXCEPT !.escape_type = "None",
                            !.escape_initiated_at = 0],
            << "Guardian escaped successfully!" >>)

\* escape_guardian, were it to leave escape_initiated_at as it finds it
escape_guardian_keep_timer(acc, owner_signed, unix_timestamp, new_guardian) ==
    LET elapsed == unix_timestamp - acc.escape_initiated_at IN
    IF ~owner_signed THEN Err("NotEnoughApprovals", acc)
    ELSE IF ~(acc.escape_type = "Guardian") THEN Err("InvalidEscapeType", acc)
    ELSE IF ~(elapsed >= acc.security_period) THEN Err("SecurityPeriodNotElapsed", acc)
    ELSE Ok([acc EXCEPT !.guardian = new_guardian,
                        !.escape_type = "None"],
            << "Guardian escaped successfully!" >>)

escape_guardian(acc, owner_signed, unix_timestamp, new_guardian) ==
    LET elapsed == unix_timestamp - acc.escape_initiated_at IN
    IF ~owner_signed THEN Err("NotEnoughApprovals", acc)
    ELSE IF ~(acc.escape_type = "Guardian") THEN Err("InvalidEscapeType", acc)
    ELSE IF ~(elapsed >= acc.security_period) THEN Err("SecurityPeriodNotElapsed", acc)
    ELSE Ok([acc EXCEPT !.guardian = new_guardian,
                        !.escape_type = "None",
                        !.escape_initiated_at = 0],
            << "Guardian escaped successfully!" >>)

\* escape_owner with a strict time-lock comparison
escape_owner_strict(acc, guardian_signed, unix_timestamp, new_owner) ==
    LET elapsed == unix_timestamp - acc.escape_initiated_at IN
    IF ~guardian_signed THEN Err("NotEnoughApprovals", acc)
    ELSE IF ~(acc.escape_type = "Owner") THEN Err("InvalidEscapeType", acc)
    ELSE IF ~(elapsed > acc.security_period) THEN Err("SecurityPeriodNotElapsed", acc)
    ELSE Ok([acc EXCEPT !.owner = new_owner,
                        !.escape_type = "None",
                        !.escape_initiated_at = 0],
            << "Owner escaped successfully!" >>)

\* escape_owner without the escape type check
escape_owner_any_type(acc, guardian_signed, unix_timestamp, new_owner) ==
    LET elapsed == unix_timestamp - acc.escape_initiated_at IN
    IF ~guardian_signed THEN Err("NotEnoughApprovals", acc)
    ELSE IF ~(elapsed >= acc.security_period) THEN Err("SecurityPeriodNotElapsed", acc)
    ELSE Ok([acc EXCEPT !.owner = new_owner,
                        !.escape_type = "None",
                        !.escape_initiated_at = 0],
            << "Owner escaped successfully!" >>)

\* escape_owner, were the escape to expire once the security period is exceeded
escape_owner_expiring(acc, guardian_signed, unix_timestamp, new_owner) ==
    LET elapsed == unix_timestamp - acc.escape_initiated_at IN
    IF ~guardian_signed THEN Err("NotEnoughApprovals", acc)
    ELSE IF ~(acc.escape_type = "Owner") THEN Err("InvalidEscapeType", acc)
    ELSE IF ~(elapsed >= acc.security_period) THEN Err("SecurityPeriodNotElapsed", acc)
    ELSE IF elapsed > acc.security_period THEN Err("EscapeExpired", acc)
    ELSE Ok([acc EXCEPT !.owner = new_owner,
                        !.escape_type = "None",
                        !.escape_initiated_at = 0],
            << "Owner escaped successfully!" >>)

escape_owner(acc, guardian_signed, unix_timestamp, new_owner) ==
    LET elapsed == unix_timestamp - acc.escape_initiated_at IN
    IF ~guardian_signed THEN Err("NotEnoughApprovals", acc)
    ELSE IF ~(acc.escape_type = "Owner") THEN Err("InvalidEscapeType", acc)
    ELSE IF ~(elapsed >= acc.security_period) THEN Err("SecurityPeriodNotElapsed", acc)
    ELSE Ok([acc EXCEPT !.owner = new_owner,
                        !.escape_type = "None",
                        !.escape_initiated_at = 0],
            << "Owner escaped successfully!" >>)

cancel_escape(acc, owner_signed, guardian_signed) ==
    IF ~(owner_signed /\ guardian_signed) THEN Err("NotEnoughApprovals", acc)
    ELSE IF ~(acc.escape_type # "None") THEN Err("NoEscapeInProgress", acc)
    ELSE Ok([acc EXCEPT !.escape_type = "None",
                        !.escape_initiated_at = 0],
            << "Escape cancelled!" >>)

\* upgrade, were the new implementation to start from the default period
upgrade_reset_period(acc, owner_signed, guardian_signed, invoke_ok) ==
    IF ~(owner_signed /\ guardian_signed) THEN Err("NotEnoughApprovals", acc)
    ELSE IF ~invoke_ok THEN Err("InvokeFailed", acc)
    ELSE Ok([acc EXCEPT !.security_period = DefaultSecurityPeriod],
            << "Program implementation upgraded successfully!" >>)

\* invoke_ok: whether the loader's upgrade instruction succeeded
upgrade(acc, owner_signed, guardian_signed, invoke_ok) ==
    IF ~(owner_signed /\ guardian_signed) THEN Err("NotEnoughApprovals", acc)
    ELSE IF ~invoke_ok THEN Err("InvokeFailed", acc)
    ELSE Ok(acc, << "Program implementation upgraded successfully!" >>)

\* ---------------------------------------------------- account validation
\* Each #[derive(Accounts)] struct: the accounts are loaded in field order
\* (Account<ArgentAccount> must be exists, a Signer must have signed),
\* then the #[account(constraint = ...)] expressions are checked in field
\* order.  The result is "Ok" or the error that stops the instruction before
\* its handler runs.
\* Create, were the record declared init_if_needed: an existing record is
\* handed to the handler again
CreateInitIfNeeded(exists, payer) ==
    IF ~payer.is_signer THEN "AccountNotSigner"
    ELSE "Ok"

Create(exists, payer) ==
    IF ~payer.is_signer THEN "AccountNotSigner"
    ELSE IF exists THEN "AccountAlreadyInUse"
    ELSE "Ok"

Execute(acc, exists, owner, guardian) ==
    IF ~exists THEN "AccountNotInitialized"
    ELSE IF ~owner.is_signer THEN "AccountNotSigner"
    ELSE IF ~guardian.is_signer THEN "AccountNotSigner"
    ELSE IF ~(acc.owner = owner.key) THEN "ConstraintRaw"
    ELSE IF ~(acc.guardian = guardian.key) THEN "ConstraintRaw"
    ELSE "Ok"

ChangeOwner(acc, exists, owner, guardian) ==
    IF ~exists THEN "AccountNotInitialized"
    ELSE IF ~owner.is_signer THEN "AccountNotSigner"
    ELSE IF ~guardian.is_signer THEN "AccountNotSigner"
    ELSE IF ~(acc.owner = owner.key) THEN "ConstraintRaw"
    ELSE IF ~(acc.guardian = guardian.key) THEN "ConstraintRaw"
    ELSE "Ok"

ChangeGuardian(acc, exists, owner, guardian) ==
    IF ~exists THEN "AccountNotInitialized"
    ELSE IF ~owner.is_signer THEN "AccountNotSigner"
    ELSE IF ~guardian.is_signer THEN "AccountNotSigner"
    ELSE IF ~(acc.owner = owner.key) THEN "ConstraintRaw"
    ELSE IF ~(acc.guardian = guardian.key) THEN "ConstraintRaw"
    ELSE "Ok"

ChangeGuardianBackup(acc, exists, owner, guardian) ==
    IF ~exists THEN "AccountNotInitialized"
    ELSE IF ~owner.is_signer THEN "AccountNotSigner"
    ELSE IF ~guardian.is_signer THEN "AccountNotSigner"
    ELSE IF ~(acc.owner = owner.key) THEN "ConstraintRaw"
    ELSE IF ~(acc.guardian = guardian.key) THEN "ConstraintRaw"
    ELSE "Ok"

TriggerEscapeGuardian(acc, exists, owner) ==
    IF ~exists THEN "AccountNotInitialized"
    ELSE IF ~owner.is_signer THEN "AccountNotSigner"
    ELSE IF ~(acc.owner = owner.key) THEN "ConstraintRaw"
    ELSE "Ok"

\* TriggerEscapeOwner, were its constraint to compare with the creation-time
\* guardian (the seed) instead of the record's guardian field
TriggerEscapeOwnerSeedGuardian(acc, exists, guardian) ==
    IF ~exists THEN "AccountNotInitialized"
    ELSE IF ~guardian.is_signer THEN "AccountNotSigner"
    ELSE IF ~(SeedGuardian = guardian.key) THEN "ConstraintRaw"
    ELSE "Ok"

TriggerEscapeOwner(acc, exists, guardian) ==
    IF ~exists THEN "AccountNotInitialized"
    ELSE IF ~guardian.is_signer THEN "AccountNotSigner"
    ELSE IF ~(acc.guardian = guardian.key) THEN "ConstraintRaw"
    ELSE "Ok"

EscapeGuardian(acc, exists, owner) ==
    IF ~exists THEN "AccountNotInitialized"
    ELSE IF ~owner.is_signer THEN "AccountNotSigner"
    ELSE IF ~(acc.owner = owner.key) THEN "ConstraintRaw"
    ELSE "Ok"

EscapeOwner(acc, exists, guardian) ==
    IF ~exists THEN "AccountNotInitialized"
    ELSE IF ~guardian.is_signer THEN "AccountNotSigner"
    ELSE IF ~(acc.guardian = guardian.key) THEN "ConstraintRaw"
    ELSE "Ok"

CancelEscape(acc, exists, owner, guardian) ==
    IF ~exists THEN "AccountNotInitialized"
    ELSE IF ~owner.is_signer THEN "AccountNotSigner"
    ELSE IF ~guardian.is_signer THEN "AccountNotSigner"
    ELSE IF ~(acc.owner = owner.key) THEN "ConstraintRaw"
    ELSE IF ~(acc.guardian = guardian.key) THEN "ConstraintRaw"
    ELSE "Ok"

Upgrade(acc, exists, owner, guardian, upgrade_authority) ==
    IF ~exists THEN "AccountNotInitialized"
    ELSE IF ~owner.is_signer THEN "AccountNotSigner"
    ELSE IF ~guardian.is_signer THEN "AccountNotSigner"
    ELSE IF ~upgrade_authority.is_signer THEN "AccountNotSigner"
    ELSE IF ~(acc.owner = owner.key) THEN "ConstraintRaw"
    ELSE IF ~(acc.guardian = guardian.key) THEN "ConstraintRaw"
    ELSE "Ok"

\* ---------------------------------------------------------- instructions
\* The account handed in as `who` is the identity `key` of the record and signed.
SignedAs(who, key) == who.key = key /\ who.is_signer

\* The instruction has no such account
NotPresent == [key |-> "", is_signer |-> FALSE]

\* No trigger has succeeded / the escape in progress was triggered from None
NoEscape == [escape_type |-> "None", at |-> -1]

\* No instruction is being returned from
NoInstruction ==
    [op |-> "none", owner |-> NotPresent, guardian |-> NotPresent, args |-> << >>,
     pre |-> ArgentAccount, existed |-> FALSE, result |-> "None", logs |-> << >>]

Init ==
    /\ initialized = FALSE
    /\ account = ArgentAccount
    /\ clock = 0
    /\ last = NoInstruction
    /\ triggered = NoEscape
    /\ replaced = NoEscape

\* One instruction, run to completion on the record (the runtime serializes the
\* instructions on one record): `validation` is the result of the account
\* validation, `handled` the handler's result (used when validation passed).
Instruction(op, owner, guardian, args, validation, handled) ==
    LET r == IF validation = "Ok" THEN handled ELSE Err(validation, account)
        trigger == r.result = "Ok"
                   /\ op \in {"trigger_escape_guardian", "trigger_escape_owner"}
    IN  /\ account' = r.account
        /\ last' = [op |-> op, owner |-> owner, guardian |-> guardian, args |-> args,
                    pre |-> account, existed |-> initialized,
                    result |-> r.result, logs |-> r.logs]
        /\ triggered' = IF trigger
                        THEN [escape_type |-> r.account.escape_type, at |-> clock]
                        ELSE triggered
        /\ replaced' = IF r.account.escape_type = "None" THEN NoEscape
                       ELSE IF trigger /\ account.escape_type # "None" THEN triggered
                       ELSE IF trigger THEN NoEscape
                       ELSE replaced
        /\ UNCHANGED clock

\* A create with other seeds addresses another record.
CreateIx ==
    /\ last = NoInstruction
    /\ \E owner \in Keys, guardian \in Keys, security_period \in SecurityPeriodArgs,
          payer \in PayerInfos :
        /\ owner = SeedOwner /\ guardian = SeedGuardian
        /\ Instruction("create", NotPresent, NotPresent,
                       << owner, guardian, security_period >>,
                       Create(initialized, payer),
                       create(account, owner, guardian, security_period))
        /\ initialized' = (initialized \/ last'.result = "Ok")

ExecuteIx ==
    /\ last = NoInstruction
    /\ \E owner \in AccountInfos, guardian \in AccountInfos, data \in DataArgs :
        /\ SameKeySameFlag(owner, guardian)
        /\ Instruction("execute", owner, guardian, << data >>,
                       Execute(account, initialized, owner, guardian),
                       execute(account, owner.is_signer, guardian.is_signer, data))
        /\ UNCHANGED initialized

ChangeOwnerIx ==
    /\ last = NoInstruction
    /\ \E owner \in AccountInfos, guardian \in AccountInfos,
          new_owner \in Keys, new_owner_signature \in SignatureArgs :
        /\ SameKeySameFlag(owner, guardian)
        /\ Instruction("change_owner", owner, guardian,
                       << new_owner, new_owner_signature >>,
                       ChangeOwner(account, initialized, owner, guardian),
                       change_owner(account, owner.is_signer, guardian.is_signer,
                                    new_owner, new_owner_signature))
        /\ UNCHANGED initialized

ChangeGuardianIx ==
    /\ last = NoInstruction
    /\ \E owner \in AccountInfos, guardian \in AccountInfos, new_guardian \in Keys :
        /\ SameKeySameFlag(owner, guardian)
        /\ Instruction("change_guardian", owner, guardian, << new_guardian >>,
                       ChangeGuardian(account, initialized, owner, guardian),
                       change_guardian(account, owner.is_signer, guardian.is_signer,
                                       new_guardian))
        /\ UNCHANGED initialized

ChangeGuardianBackupIx ==
    /\ last = NoInstruction
    /\ \E owner \in AccountInfos, guardian \in AccountInfos,
          new_guardian_backup \in BackupArgs :
        /\ SameKeySameFlag(owner, guardian)
        /\ Instruction("change_guardian_backup", owner, guardian,
                       << new_guardian_backup >>,
                       ChangeGuardianBackup(account, initialized, owner, guardian),
                       change_guardian_backup(account, owner.is_signer,
                                              guardian.is_signer, new_guardian_backup))
        /\ UNCHANGED initialized

TriggerEscapeGuardianIx ==
    /\ last = NoInstruction
    /\ \E owner \in AccountInfos :
        /\ Instruction("trigger_escape_guardian", owner, NotPresent, << >>,
                       TriggerEscapeGuardian(account, initialized, owner),
                       trigger_escape_guardian(account, owner.is_signer, clock))
        /\ UNCHANGED initialized

TriggerEscapeOwnerIx ==
    /\ last = NoInstruction
    /\ \E guardian \in AccountInfos :
        /\ Instruction("trigger_escape_owner", NotPresent, guardian, << >>,
                       TriggerEscapeOwner(account, initialized, guardian),
                       trigger_escape_owner(account, guardian.is_signer, clock))
        /\ UNCHANGED initialized

EscapeGuardianIx ==
    /\ last = NoInstruction
    /\ \E owner \in AccountInfos, new_guardian \in Keys :
        /\ Instruction("escape_guardian", owner, NotPresent, << new_guardian >>,
                       EscapeGuardian(account, initialized, owner),
                       escape_guardian(account, owner.is_signer, clock, new_guardian))
        /\ UNCHANGED initialized

EscapeOwnerIx ==
    /\ last = NoInstruction
    /\ \E guardian \in AccountInfos, new_owner \in Keys :
        /\ Instruction("escape_owner", NotPresent, guardian, << new_owner >>,
                       EscapeOwner(account, initialized, guardian),
                       escape_owner(account, guardian.is_signer, clock, new_owner))
        /\ UNCHANGED initialized

CancelEscapeIx ==
    /\ last = NoInstruction
    /\ \E owner \in AccountInfos, guardian \in AccountInfos :
        /\ SameKeySameFlag(owner, guardian)
        /\ Instruction("cancel_escape", owner, guardian, << >>,
                       CancelEscape(account, initialized, owner, guardian),
                       cancel_escape(account, owner.is_signer, guardian.is_signer))
        /\ UNCHANGED initialized

UpgradeIx ==
    /\ last = NoInstruction
    /\ \E owner \in AccountInfos, guardian \in AccountInfos,
          upgrade_authority \in PayerInfos, invoke_ok \in BOOLEAN :
        /\ SameKeySameFlag(owner, guardian)
        /\ Instruction("upgrade", owner, guardian, << >>,
                       Upgrade(account, initialized, owner, guardian, upgrade_authority),
                       upgrade(account, owner.is_signer, guardian.is_signer, invoke_ok))
        /\ UNCHANGED initialized

\* The instruction's result has been returned; the next one may run.
Return ==
    /\ last # NoInstruction
    /\ last' = NoInstruction
    /\ UNCHANGED << initialized, account, clock, triggered, replaced >>

\* The clock collaborator: time passes between instructions.
Tick ==
    /\ last = NoInstruction
    /\ clock < MaxTime
    /\ clock' = clock + 1
    /\ UNCHANGED << initialized, account, last, triggered, replaced >>

Next ==
    \/ CreateIx
    \/ ExecuteIx
    \/ ChangeOwnerIx
    \/ ChangeGuardianIx
    \/ ChangeGuardianBackupIx
    \/ TriggerEscapeGuardianIx
    \/ TriggerEscapeOwnerIx
    \/ EscapeGuardianIx
    \/ EscapeOwnerIx
    \/ CancelEscapeIx
    \/ UpgradeIx
    \/ Return
    \/ Tick

Spec == Init /\ [][Next]_vars

\* ------------------------------------------------------------ properties
\* The instruction being returned from (the clock still reads its time)
Returned(op) == last.op = op /\ last.existed

OwnerSigned == SignedAs(last.owner, last.pre.owner)
GuardianSigned == SignedAs(last.guardian, last.pre.guardian)

\* Instructions that need both the owner and the guardian
DualGated ==
    {"change_owner", "change_guardian", "change_guardian_backup", "execute",
     "cancel_escape", "upgrade"}

\* The instruction changed the escape state of the record
EscapeChanged ==
    \/ account.escape_type # last.pre.escape_type
    \/ account.escape_initiated_at # last.pre.escape_initiated_at

\* C1: in every reachable state of a created record, escape_type is None if
\* and only if escape_initiated_at is 0.
EscapeNoneIffNotInitiated ==
    initialized =>
        ((account.escape_type = "None") <=> (account.escape_initiated_at = 0))

\* C2: escape_guardian by the owner in state Guardian, and escape_owner by the
\* guardian in state Owner, fail with SecurityPeriodNotElapsed when
\* now - escape_initiated_at < security_period and succeed otherwise, equality
\* included.
TimeLockInclusive ==
    /\ (Returned("escape_guardian") /\ OwnerSigned
            /\ last.pre.escape_type = "Guardian")
        => last.result =
             IF clock - last.pre.escape_initiated_at < last.pre.security_period
             THEN "SecurityPeriodNotElapsed" ELSE "Ok"
    /\ (Returned("escape_owner") /\ GuardianSigned
            /\ last.pre.escape_type = "Owner")
        => last.result =
             IF clock - last.pre.escape_initiated_at < last.pre.security_period
             THEN "SecurityPeriodNotElapsed" ELSE "Ok"

\* escape_owner succeeded exactly security_period after the trigger
TimeLockBoundaryReached ==
    /\ Returned("escape_owner") /\ GuardianSigned
    /\ last.result = "Ok"
    /\ last.pre.security_period > 0
    /\ clock - last.pre.escape_initiated_at = last.pre.security_period

\* C3: trigger_escape_guardian signed by the owner succeeds from every escape
\* state and leaves the state Guardian (from Owner too); trigger_escape_owner
\* signed by the guardian fails with EscapeGuardianInProgress from Guardian and
\* succeeds from None and from Owner.
PriorityAsymmetry ==
    /\ (Returned("trigger_escape_guardian") /\ OwnerSigned)
        => (last.result = "Ok" /\ account.escape_type = "Guardian")
    /\ (Returned("trigger_escape_owner") /\ GuardianSigned)
        => IF last.pre.escape_type = "Guardian"
           THEN last.result = "EscapeGuardianInProgress"
           ELSE last.result = "Ok" /\ account.escape_type = "Owner"

\* the owner's trigger overrode an Owner escape in progress
OwnerOverrodeOwnerEscape ==
    /\ Returned("trigger_escape_guardian") /\ OwnerSigned
    /\ last.pre.escape_type = "Owner"
    /\ last.result = "Ok"
    /\ account.escape_type = "Guardian"

\* C4: each dual-gated instruction fails with NotEnoughApprovals for every
\* signer combination other than owner signed and guardian signed.
DualGateNotEnoughApprovals ==
    (last.existed /\ last.op \in DualGated /\ ~(OwnerSigned /\ GuardianSigned))
        => last.result = "NotEnoughApprovals"

\* C5: an instruction that returns an error leaves every field of the record
\* (and its existence) as it was before the call.
FailureAtomicity ==
    (last.op # "none" /\ last.result # "Ok")
        => (account = last.pre /\ initialized = last.existed)

\* escape_guardian was refused by the time lock with a new guardian to write
RefusedAfterChecks ==
    /\ Returned("escape_guardian")
    /\ last.result = "SecurityPeriodNotElapsed"
    /\ last.args[1] # last.pre.guardian

\* C6: while escape_type is Guardian, neither trigger_escape_owner nor
\* escape_owner succeeds, and the owner field changes only in an instruction
\* the owner signed.
GuardianLockedOut ==
    (last.existed /\ last.pre.escape_type = "Guardian")
        => /\ last.op \in {"trigger_escape_owner", "escape_owner"}
                => last.result # "Ok"
           /\ account.owner # last.pre.owner => OwnerSigned

\* the guardian's escape_owner was refused during a Guardian escape although
\* the security period had elapsed
GuardianRefusedDuringGuardianEscape ==
    /\ Returned("escape_owner") /\ GuardianSigned
    /\ last.pre.escape_type = "Guardian"
    /\ last.pre.security_period > 0
    /\ clock - last.pre.escape_initiated_at >= last.pre.security_period
    /\ last.result # "Ok"
    /\ account.owner = last.pre.owner

\* C7 as claimed: an escape in progress is removed or replaced only by an
\* instruction that the party who triggered it signed (the owner for a Guardian
\* escape, the guardian for an Owner escape); cancel_escape carries both.
NoUnilateralUntrigger ==
    (last.existed /\ last.pre.owner # last.pre.guardian /\ EscapeChanged)
        => /\ last.pre.escape_type = "Guardian" => OwnerSigned
           /\ last.pre.escape_type = "Owner" => GuardianSigned

\* C7 as amended: a Guardian escape is removed or replaced only by an
\* instruction the owner signed; an Owner escape only by an instruction the
\* guardian signed or by the owner's trigger_escape_guardian, which replaces it
\* with a Guardian escape.
NoUnilateralUntriggerButOverride ==
    (last.existed /\ last.pre.owner # last.pre.guardian /\ EscapeChanged)
        => /\ last.pre.escape_type = "Guardian" => OwnerSigned
           /\ last.pre.escape_type = "Owner"
                => \/ GuardianSigned
                   \/ /\ last.op = "trigger_escape_guardian"
                      /\ OwnerSigned
                      /\ account.escape_type = "Guardian"

\* the guardian alone tried to replace the owner's Guardian escape, which stayed
GuardianEscapeKept ==
    /\ Returned("trigger_escape_owner") /\ GuardianSigned
    /\ last.pre.owner # last.pre.guardian
    /\ last.pre.escape_type = "Guardian"
    /\ account.escape_type = "Guardian"
    /\ account.escape_initiated_at = last.pre.escape_initiated_at

\* C8: trigger_escape_guardian by the owner at time t1 in state Owner leaves
\* state Guardian with escape_initiated_at = t1 (not before the abandoned
\* trigger time t0), and escape_owner by the guardian fails with
\* InvalidEscapeType at any time while the state is Guardian.
OverrideAbandonsOwnerEscape ==
    /\ (Returned("trigger_escape_guardian") /\ OwnerSigned
            /\ last.pre.escape_type = "Owner")
        => /\ last.result = "Ok"
           /\ account.escape_type = "Guardian"
           /\ account.escape_initiated_at = clock
           /\ replaced.escape_type = "Owner"
           /\ replaced.at <= clock
    /\ (Returned("escape_owner") /\ GuardianSigned
            /\ last.pre.escape_type = "Guardian")
        => (last.result = "InvalidEscapeType" /\ account = last.pre)

\* escape_owner was refused with InvalidEscapeType after an override, a full
\* security period after the abandoned Owner escape was triggered
AbandonedOwnerEscapeRefused ==
    /\ Returned("escape_owner") /\ GuardianSigned
    /\ last.pre.escape_type = "Guardian"
    /\ replaced.escape_type = "Owner"
    /\ replaced.at < last.pre.escape_initiated_at
    /\ last.pre.security_period > 0
    /\ clock - replaced.at >= last.pre.security_period
    /\ last.result = "InvalidEscapeType"

\* C9: a trigger of the direction already in progress succeeds and sets
\* escape_initiated_at to the time of the call; a completion succeeds only when
\* the most recent successful trigger was of its direction and at least
\* security_period ago.
RetriggerRestartsTimer ==
    /\ (Returned("trigger_escape_owner") /\ GuardianSigned
            /\ last.pre.escape_type = "Owner")
        => (last.result = "Ok" /\ account.escape_initiated_at = clock)
    /\ (Returned("trigger_escape_guardian") /\ OwnerSigned
            /\ last.pre.escape_type = "Guardian")
        => (last.result = "Ok" /\ account.escape_initiated_at = clock)
    /\ (Returned("escape_owner") /\ last.result = "Ok")
        => /\ triggered.escape_type = "Owner"
           /\ clock - triggered.at >= last.pre.security_period
    /\ (Returned("escape_guardian") /\ last.result = "Ok")
        => /\ triggered.escape_type = "Guardian"
           /\ clock - triggered.at >= last.pre.security_period

\* escape_owner was refused by the time lock after a retrigger, a full security
\* period after the earlier trigger
RetriggeredEscapeRefused ==
    /\ Returned("escape_owner") /\ GuardianSigned
    /\ last.pre.escape_type = "Owner"
    /\ replaced.escape_type = "Owner"
    /\ clock - replaced.at >= last.pre.security_period
    /\ last.result = "SecurityPeriodNotElapsed"

\* C10: cancel_escape fails with NotEnoughApprovals when a required signer is
\* missing, with NoEscapeInProgress when both signed and the state is None, and
\* otherwise succeeds, resetting escape_type and escape_initiated_at only.
CancelEscapeContract ==
    Returned("cancel_escape")
        => IF ~(OwnerSigned /\ GuardianSigned)
           THEN last.result = "NotEnoughApprovals"
           ELSE IF last.pre.escape_type = "None"
           THEN last.result = "NoEscapeInProgress"
           ELSE /\ last.result = "Ok"
                /\ account = [last.pre EXCEPT !.escape_type = "None",
                                              !.escape_initiated_at = 0]

\* Instructions whose accounts include the owner / the guardian
OwnerGated == DualGated \cup {"trigger_escape_guardian", "escape_guardian"}
GuardianGated == DualGated \cup {"trigger_escape_owner", "escape_owner"}

\* Errors that turn a signer away
SignerErrors == {"AccountNotSigner", "ConstraintRaw", "NotEnoughApprovals"}

\* C11: signer checks use the record's identities at the time of the call: an
\* instruction with a guardian account succeeds only when that account is the
\* record's current guardian and signed (so a replaced guardian is rejected),
\* and likewise for the owner; trigger_escape_owner and escape_owner do not
\* turn the current guardian away as a signer, nor trigger_escape_guardian and
\* escape_guardian the current owner, nor a dual-gated instruction the two.
CurrentIdentitiesGate ==
    last.existed =>
        /\ (last.op \in GuardianGated /\ last.result = "Ok") => GuardianSigned
        /\ (last.op \in OwnerGated /\ last.result = "Ok") => OwnerSigned
        /\ (last.op \in {"trigger_escape_owner", "escape_owner"} /\ GuardianSigned)
            => last.result \notin SignerErrors
        /\ (last.op \in {"trigger_escape_guardian", "escape_guardian"} /\ OwnerSigned)
            => last.result \notin SignerErrors
        /\ (last.op \in DualGated /\ OwnerSigned /\ GuardianSigned)
            => /\ last.result \notin {"ConstraintRaw", "NotEnoughApprovals"}
               /\ last.op # "upgrade" => last.result # "AccountNotSigner"

\* after the guardian was replaced, the creation-time guardian signed
\* trigger_escape_owner and was turned away
FormerGuardianRejected ==
    /\ Returned("trigger_escape_owner")
    /\ last.pre.guardian # SeedGuardian
    /\ last.guardian = [key |-> SeedGuardian, is_signer |-> TRUE]
    /\ last.result = "ConstraintRaw"
    /\ account = last.pre

\* C12: in every reachable state of a created record security_period > 0, so
\* that no escape is completed at the clock reading at which it was triggered.
SecurityPeriodPositive ==
    /\ initialized => account.security_period > 0
    /\ (last.op \in {"escape_guardian", "escape_owner"} /\ last.result = "Ok")
        => triggered.at < clock

\* C13: a successful change_owner changes only owner, change_guardian only
\* guardian, change_guardian_backup only guardian_backup and execute only
\* pending_tx; escape_type and escape_initiated_at are as before the call.
OneFieldWritten ==
    (last.existed /\ last.result = "Ok")
        => /\ last.op = "change_owner"
                => account = [last.pre EXCEPT !.owner = last.args[1]]
           /\ last.op = "change_guardian"
                => account = [last.pre EXCEPT !.guardian = last.args[1]]
           /\ last.op = "change_guardian_backup"
                => account = [last.pre EXCEPT !.guardian_backup = last.args[1]]
           /\ last.op = "execute"
                => account = [last.pre EXCEPT !.pending_tx = account.pending_tx]
           /\ last.op \in {"change_owner", "change_guardian",
                           "change_guardian_backup", "execute"}
                => ~EscapeChanged

\* the guardian was rotated while an escape was in flight, which kept its
\* direction and timer
RotatedDuringEscape ==
    /\ Returned("change_guardian")
    /\ last.result = "Ok"
    /\ last.pre.escape_type # "None"
    /\ last.pre.escape_initiated_at > 0
    /\ account.guardian # last.pre.guardian
    /\ account.escape_type = last.pre.escape_type
    /\ account.escape_initiated_at = last.pre.escape_initiated_at

\* C14: a successful escape_owner(new_owner) sets owner = new_owner,
\* escape_type = None and escape_initiated_at = 0 and leaves guardian,
\* guardian_backup, security_period and pending_tx as they were; a successful
\* escape_guardian(new_guardian) does the same with guardian for owner.
CompletionEffect ==
    /\ (Returned("escape_owner") /\ last.result = "Ok")
        => account = [last.pre EXCEPT !.owner = last.args[1],
                                      !.escape_type = "None",
                                      !.escape_initiated_at = 0]
    /\ (Returned("escape_guardian") /\ last.result = "Ok")
        => account = [last.pre EXCEPT !.guardian = last.args[1],
                                      !.escape_type = "None",
                                      !.escape_initiated_at = 0]

\* escape_guardian replaced the guardian of a record with a backup guardian and
\* a staged transaction, after an escape triggered at a positive clock reading
GuardianEscapeCompleted ==
    /\ Returned("escape_guardian")
    /\ last.result = "Ok"
    /\ last.pre.escape_initiated_at > 0
    /\ last.pre.guardian_backup # None
    /\ last.pre.pending_tx # None
    /\ account.guardian # last.pre.guardian
    /\ account.escape_type = "None"
    /\ account.escape_initiated_at = 0

\* C15: a successful execute(data) leaves pending_tx = {data, owner_approved:
\* true, guardian_approved: true} whatever was staged before; in every
\* reachable state pending_tx is absent or has both approval flags true; and
\* pending_tx changes in a successful execute only (it is never cleared).
PendingTxStaging ==
    /\ (Returned("execute") /\ last.result = "Ok")
        => account.pending_tx = Some(PendingTransaction(last.args[1], TRUE, TRUE))
    /\ account.pending_tx # None
        => (account.pending_tx[1].owner_approved
            /\ account.pending_tx[1].guardian_approved)
    /\ (last.existed /\ account.pending_tx # last.pre.pending_tx)
        => (last.op = "execute" /\ last.result = "Ok")
    /\ (last.op # "none" /\ last.pre.pending_tx # None)
        => account.pending_tx # None

\* execute replaced a staged payload with another one
StagedPayloadReplaced ==
    /\ Returned("execute")
    /\ last.result = "Ok"
    /\ last.pre.pending_tx # None
    /\ last.pre.pending_tx[1].data # last.args[1]
    /\ account.pending_tx[1].data = last.args[1]

\* C16: a create for a seed pair whose record exists fails and leaves the
\* record as it was, also when the record's owner or guardian is no longer the
\* one of the seeds; a successful first create leaves owner and guardian as
\* given, guardian_backup absent, escape_type None, escape_initiated_at 0,
\* pending_tx absent and security_period the argument, or 604800 without one.
CreateRejectsDuplicate ==
    last.op = "create"
        => /\ last.existed
                => /\ last.result \in {"AccountAlreadyInUse", "AccountNotSigner"}
                   /\ account = last.pre
                   /\ initialized
           /\ (~last.existed /\ last.result = "Ok")
                => /\ initialized
                   /\ account =
                        [owner |-> last.args[1],
                         guardian |-> last.args[2],
                         guardian_backup |-> None,
                         escape_type |-> "None",
                         escape_initiated_at |-> 0,
                         security_period |->
                            IF last.args[3] = None THEN 604800 ELSE last.args[3][1],
                         pending_tx |-> None]

\* a second create for the seed pair was refused after the record's owner and
\* guardian had both been changed
DuplicateCreateRefused ==
    /\ last.op = "create" /\ last.existed
    /\ last.pre.owner # last.args[1]
    /\ last.pre.guardian # last.args[2]
    /\ last.pre.security_period # unwrap_or(last.args[3], DefaultSecurityPeriod)
    /\ last.result = "AccountAlreadyInUse"
    /\ account = last.pre

\* C17: change_owner signed by the owner and the guardian fails with
\* InvalidSignature when new_owner_signature is all zero bytes, leaving owner
\* as it was, and otherwise succeeds and sets owner = new_owner.
ChangeOwnerSignature ==
    (Returned("change_owner") /\ OwnerSigned /\ GuardianSigned)
        => IF \A i \in DOMAIN last.args[2] : last.args[2][i] = 0
           THEN last.result = "InvalidSignature" /\ account.owner = last.pre.owner
           ELSE last.result = "Ok" /\ account.owner = last.args[1]

\* change_owner to another key was refused for its all-zero signature
ZeroSignatureRefused ==
    /\ Returned("change_owner") /\ OwnerSigned /\ GuardianSigned
    /\ last.args[1] # last.pre.owner
    /\ last.args[2] = ZeroSignature
    /\ last.result = "InvalidSignature"
    /\ account.owner = last.pre.owner

\* The record's current owner / guardian, signing
CurrentOwner == [key |-> account.owner, is_signer |-> TRUE]
CurrentGuardian == [key |-> account.guardian, is_signer |-> TRUE]

\* C18: while the escape most recently triggered (in direction D, at time t) is
\* in progress, from clock reading t + security_period on and at every later
\* reading the completion of D is enabled: escape_guardian signed by the owner
\* (D = Guardian) or escape_owner signed by the guardian (D = Owner) succeeds
\* for every new key, and such a call, when made, returns Ok.
CompletionStaysEnabled ==
    /\ (initialized /\ account.escape_type # "None"
            /\ clock - triggered.at >= account.security_period)
        => /\ triggered.escape_type = account.escape_type
           /\ account.escape_type = "Guardian"
                => \A new_guardian \in Keys :
                     /\ EscapeGuardian(account, initialized, CurrentOwner) = "Ok"
                     /\ escape_guardian(account, TRUE, clock, new_guardian).result = "Ok"
           /\ account.escape_type = "Owner"
                => \A new_owner \in Keys :
                     /\ EscapeOwner(account, initialized, CurrentGuardian) = "Ok"
                     /\ escape_owner(account, TRUE, clock, new_owner).result = "Ok"
    /\ (Returned("escape_guardian") /\ OwnerSigned
            /\ last.pre.escape_type = "Guardian"
            /\ clock - triggered.at >= last.pre.security_period)
        => last.result = "Ok"
    /\ (Returned("escape_owner") /\ GuardianSigned
            /\ last.pre.escape_type = "Owner"
            /\ clock - triggered.at >= last.pre.security_period)
        => last.result = "Ok"

\* escape_owner succeeded later than security_period after the trigger
LateCompletionTaken ==
    /\ Returned("escape_owner") /\ GuardianSigned
    /\ last.pre.escape_type = "Owner"
    /\ triggered.escape_type = "Owner"
    /\ last.pre.security_period > 0
    /\ clock - triggered.at > last.pre.security_period
    /\ last.result = "Ok"

\* C19: escape_guardian and escape_owner check the signer first, the escape
\* direction second and the time lock last: without the required signer the
\* call fails with NotEnoughApprovals in every state, and with the required
\* signer while escape_type is not the matching direction it fails with
\* InvalidEscapeType at every clock reading.
CompletionErrorPrecedence ==
    /\ Returned("escape_guardian")
        => IF ~OwnerSigned THEN last.result = "NotEnoughApprovals"
           ELSE last.pre.escape_type # "Guardian"
                    => last.result = "InvalidEscapeType"
    /\ Returned("escape_owner")
        => IF ~GuardianSigned THEN last.result = "NotEnoughApprovals"
           ELSE last.pre.escape_type # "Owner"
                    => last.result = "InvalidEscapeType"

\* C20: the owner field changes only in a successful change_owner signed by
\* the owner and the guardian or a successful escape_owner signed by the
\* guardian in state Owner with the security period elapsed; the guardian
\* field only in a successful change_guardian or a successful escape_guardian
\* signed by the owner in state Guardian with the period elapsed; and
\* security_period is never changed once the record exists.
ControlChangesByDesignatedPaths ==
    last.existed =>
        LET elapsed == clock - last.pre.escape_initiated_at IN
        /\ account.owner # last.pre.owner
            => /\ last.result = "Ok"
               /\ \/ /\ last.op = "change_owner"
                     /\ OwnerSigned /\ GuardianSigned
                  \/ /\ last.op = "escape_owner"
                     /\ GuardianSigned
                     /\ last.pre.escape_type = "Owner"
                     /\ elapsed >= last.pre.security_period
        /\ account.guardian # last.pre.guardian
            => /\ last.result = "Ok"
               /\ \/ /\ last.op = "change_guardian"
                     /\ OwnerSigned /\ GuardianSigned
                  \/ /\ last.op = "escape_guardian"
                     /\ OwnerSigned
                     /\ last.pre.escape_type = "Guardian"
                     /\ elapsed >= last.pre.security_period
        /\ account.security_period = last.pre.security_period

\* the guardian took the owner field over by escape_owner, on a record with a
\* security period other than the default
OwnerChangedByEscape ==
    /\ Returned("escape_owner")
    /\ account.owner # last.pre.owner
    /\ last.pre.security_period = 1
    /\ account.security_period = 1
    /\ ~SignedAs(last.owner, last.pre.owner)

====
